---- MODULE Spec2Model ----
(***************************************************************************)
(* Model of src/set_environment.py: ServerConfig (the registry of          *)
(* SERVER_NAME / ENV records and its substring lookup) and DeployEnv (the  *)
(* identity cascade of determine_env and the network fallback of           *)
(* run_auto_env_selector).                                                 *)
(*                                                                         *)
(* Python strings that are matched with `in` are sequences of characters;  *)
(* file names and log texts, which are only compared and tested for        *)
(* truthiness, are TLA+ strings.                                           *)
(***************************************************************************)
EXTENDS Integers, Sequences, FiniteSets, TLC

VARIABLES
    configs,           \* self.configs: the records of server_configs.json, in file order
    current_config,    \* self.current_config
    docker_hostname,   \* self.docker_hostname
    aws_hostname,      \* self.aws_hostname
    machine_id,        \* self.machine_id
    hostname,          \* self.hostname
    computer_name,     \* self.computer_name
    network,           \* what requests.get(epa_access_test_url) does in this deployment
    pc,                \* the line the program is at
    env_filename,      \* determine_env's local env_filename
    internal_request,  \* run_auto_env_selector's local internal_request
    probe_ret,         \* the value run_auto_env_selector returned
    server_name,       \* the argument of the latest set_current_config call
    examined,          \* records whose SERVER_NAME the latest set_current_config call tested
    queried,           \* the candidates passed to set_current_config in this determine_env run
    probes,            \* calls of run_auto_env_selector in this determine_env run
    log,               \* the "Setting .env filename using ..." warnings of this run
    returned           \* the values determine_env returned, one per completed call

vars == <<configs, current_config, docker_hostname, aws_hostname, machine_id,
          hostname, computer_name, network, pc, env_filename, internal_request,
          probe_ret, server_name, examined, queried, probes, log, returned>>

(***************************************************************************)
(* Bounds.                                                                 *)
(***************************************************************************)
MaxRecords == 2     \* records in server_configs.json
MaxLen == 2         \* characters in a SERVER_NAME pattern or an identity (lookup alone)
MaxCalls == 2       \* determine_env calls on one DeployEnv object

(***************************************************************************)
(* Values.                                                                 *)
(***************************************************************************)
Alphabet == {"a", "b"}

Strings(n) == UNION {[1..k -> Alphabet] : k \in 0..n}

\* Python's None where a file name is expected, and where an identity is.
None == "None"
NoneId == <<"None">>

\* The ENV values a record can hold; "" is an empty ENV string.
EnvFiles == {"", "cluster.env", "aws.env"}

\* Truthiness of a file name (str or None): `if env_filename`.
Truthy(f) == f # None /\ f # ""

\* Truthiness of an identity (str or None): `if server_name`.
TruthyId(s) == s # NoneId /\ s # <<>>

Records(n) == [SERVER_NAME : Strings(n), ENV : EnvFiles]

Registries(recs) == UNION {[1..k -> recs] : k \in 0..MaxRecords}

\* The SERVER_NAME patterns and the machine names of the cascade's deployments.
HostPatterns == {<<"a">>, <<"b">>}
HostNames == {<<"a">>, <<"a", "b">>}

\* os.environ.get(...) of a variable that may be absent.
EnvValues == {NoneId} \cup HostNames

\* HTTP status codes of the response of the access test URL.
StatusCodes == {200, 204, 404, 500}

\* requests.get either raises or returns a response with a status code.
NetworkOutcomes ==
    {[raises |-> TRUE, status_code |-> 0]}
        \cup {[raises |-> FALSE, status_code |-> c] : c \in StatusCodes}

\* internal_request: <<>> is None, <<c>> a Response with status_code c.
NoRequest == <<>>

\* bool(Response) is Response.ok: the status is no 4xx or 5xx.
TruthyResponse(r) == r # NoRequest /\ r[1] < 400

(***************************************************************************)
(* ServerConfig.                                                           *)
(***************************************************************************)

\* `pattern = server_name`: exact equality instead of containment.
IsSubstring_equal(p, s) == p = s

\* `p in s` on Python strings.
IsSubstring(p, s) ==
    \E i \in 0..(Len(s) - Len(p)) : SubSeq(s, i + 1, i + Len(p)) = p

\* get_config from record i on: the ENV of the first record whose SERVER_NAME
\* is in name, None when the loop ends; examined counts the records tested.
RECURSIVE get_config_from(_, _, _)
get_config_from(cfgs, name, i) ==
    IF i > Len(cfgs)
    THEN [ret |-> None, examined |-> Len(cfgs)]
    ELSE IF IsSubstring(cfgs[i].SERVER_NAME, name)
         THEN [ret |-> cfgs[i].ENV, examined |-> i]
         ELSE get_config_from(cfgs, name, i + 1)

get_config(cfgs, name) == get_config_from(cfgs, name, 1)

\* set_current_config without the `if server_name` test.
set_current_config_unguarded(cfgs, cur, name) == get_config(cfgs, name)

\* set_current_config that does nothing once a config is set.
set_current_config_once(cfgs, cur, name) ==
    IF Truthy(cur)
    THEN [ret |-> None, examined |-> 0]
    ELSE IF TruthyId(name) THEN get_config(cfgs, name)
         ELSE [ret |-> None, examined |-> 0]

\* set_current_config on an object with configs cfgs and current_config cur:
\* the value returned, which is also the new current_config.
set_current_config(cfgs, cur, name) ==
    IF TruthyId(name)
    THEN get_config(cfgs, name)
    ELSE [ret |-> None, examined |-> 0]

(***************************************************************************)
(* DeployEnv.run_auto_env_selector.                                        *)
(***************************************************************************)

\* The docker file names of the two branches exchanged.
RunAutoDecision_swapped(req, docker) ==
    IF TruthyResponse(req) /\ req[1] = 200
    THEN IF ~TruthyId(docker) THEN "local_dev.env" ELSE "local_docker_dev.env"
    ELSE IF ~TruthyId(docker) THEN "local_dev.env" ELSE "cgi_docker_dev.env"

\* The docker branch outside the network falls through to `return None`.
RunAutoDecision_fallthrough(req, docker) ==
    IF TruthyResponse(req) /\ req[1] = 200
    THEN IF ~TruthyId(docker) THEN "local_dev.env" ELSE "cgi_docker_dev.env"
    ELSE IF ~TruthyId(docker) THEN "local_dev.env" ELSE None

\* Lines 192-209: the file name for the response and the docker hostname.
RunAutoDecision(req, docker) ==
    IF TruthyResponse(req) /\ req[1] = 200
    THEN IF ~TruthyId(docker) THEN "local_dev.env" ELSE "cgi_docker_dev.env"
    ELSE IF ~TruthyId(docker) THEN "local_dev.env" ELSE "local_docker_dev.env"

(***************************************************************************)
(* The state after DeployEnv(): the registry is loaded, nothing is         *)
(* resolved, the identity attributes are None.                             *)
(***************************************************************************)
Constructed ==
    /\ current_config = None
    /\ docker_hostname = NoneId
    /\ aws_hostname = NoneId
    /\ machine_id = NoneId
    /\ hostname = NoneId
    /\ computer_name = NoneId
    /\ env_filename = None
    /\ internal_request = NoRequest
    /\ probe_ret = None
    /\ server_name = NoneId
    /\ examined = 0
    /\ queried = <<>>
    /\ probes = 0
    /\ log = <<>>
    /\ returned = <<>>

Init ==
    /\ configs \in Registries([SERVER_NAME : HostPatterns, ENV : EnvFiles])
    /\ network \in NetworkOutcomes
    /\ pc = "start"
    /\ Constructed

\* Lines 150-161 of load_deployment_environment: the identity attributes are
\* read from the process environment and from socket.gethostname().
LoadDeploymentEnvironment ==
    /\ pc = "start"
    /\ aws_hostname' \in EnvValues
    /\ docker_hostname' \in EnvValues
    /\ hostname' \in EnvValues
    /\ computer_name' \in EnvValues
    /\ machine_id' \in HostNames
    /\ pc' = "l98"
    /\ UNCHANGED <<configs, current_config, network, env_filename,
                   internal_request, probe_ret, server_name, examined,
                   queried, probes, log, returned>>

\* <caller's variable> = self.set_current_config(value)
Call_set_current_config(value) ==
    LET r == set_current_config(configs, current_config, value) IN
    /\ env_filename' = r.ret
    /\ current_config' = r.ret
    /\ examined' = r.examined
    /\ server_name' = value

\* env_filename = self.set_current_config(value), for the candidate label.
Query(label, value, next) ==
    /\ Call_set_current_config(value)
    /\ queried' = Append(queried, label)
    /\ pc' = next
    /\ UNCHANGED <<configs, docker_hostname, aws_hostname, machine_id,
                   hostname, computer_name, network, internal_request,
                   probe_ret, probes, log, returned>>

\* logger.warning("Setting .env filename using <source>."); return env_filename
Return(source) ==
    /\ log' = Append(log, source)
    /\ returned' = Append(returned, env_filename)
    /\ pc' = "done"
    /\ UNCHANGED <<configs, current_config, docker_hostname, aws_hostname,
                   machine_id, hostname, computer_name, network, env_filename,
                   internal_request, probe_ret, server_name, examined,
                   queried, probes>>

\* Line 98.
QueryDocker ==
    /\ pc = "l98"
    /\ Query("docker_hostname", docker_hostname, "l100")

\* Lines 100-102.
QueryAws ==
    /\ pc = "l100"
    /\ ~Truthy(env_filename)
    /\ Query("aws_hostname", aws_hostname, "l107")

\* The docker match does not end the cascade.
ReturnDocker_continue ==
    /\ pc = "l100"
    /\ Truthy(env_filename)
    /\ Query("aws_hostname", aws_hostname, "l107")

\* Lines 103-105.
ReturnDocker ==
    /\ pc = "l100"
    /\ Truthy(env_filename)
    /\ Return("$AWS_HOSTNAME")

\* The machine id step looks up the hostname attribute.
QueryMachineId_hostname ==
    /\ pc = "l107"
    /\ ~Truthy(env_filename)
    /\ Query("machine_id", hostname, "l114")

\* Lines 107-109.
QueryMachineId ==
    /\ pc = "l107"
    /\ ~Truthy(env_filename)
    /\ Query("machine_id", machine_id, "l114")

\* Lines 110-112.
ReturnAws ==
    /\ pc = "l107"
    /\ Truthy(env_filename)
    /\ Return("$DOCKER_HOSTNAME")

\* Lines 114-116.
QueryHostname ==
    /\ pc = "l114"
    /\ ~Truthy(env_filename)
    /\ Query("hostname", hostname, "l121")

\* Lines 117-119.
ReturnMachineId ==
    /\ pc = "l114"
    /\ Truthy(env_filename)
    /\ Return("socket.gethostname()")

\* Lines 121-123.
QueryComputerName ==
    /\ pc = "l121"
    /\ ~Truthy(env_filename)
    /\ Query("computer_name", computer_name, "l128")

\* Lines 124-126.
ReturnHostname ==
    /\ pc = "l121"
    /\ Truthy(env_filename)
    /\ Return("$HOSTNAME env var")

\* The call of run_auto_env_selector.
EnterAutoEnvSelector ==
    /\ probes' = probes + 1
    /\ pc' = "l185"
    /\ UNCHANGED <<configs, current_config, docker_hostname, aws_hostname,
                   machine_id, hostname, computer_name, network, env_filename,
                   internal_request, probe_ret, server_name, examined,
                   queried, log, returned>>

\* Lines 128-130: no candidate matched, run_auto_env_selector is called.
CallAutoEnvSelector ==
    /\ pc = "l128"
    /\ ~Truthy(env_filename)
    /\ EnterAutoEnvSelector

\* A computer name match runs the selector as well.
ReturnComputerName_probe ==
    /\ pc = "l128"
    /\ Truthy(env_filename)
    /\ EnterAutoEnvSelector

\* Lines 132-134.
ReturnComputerName ==
    /\ pc = "l128"
    /\ Truthy(env_filename)
    /\ Return("%COMPUTERNAME% env var")

\* An exception of requests.get leaves run_auto_env_selector.
ProbeRequest_uncaught ==
    /\ pc = "l185"
    /\ IF network.raises
       THEN pc' = "raised" /\ internal_request' = NoRequest
       ELSE pc' = "l192" /\ internal_request' = <<network.status_code>>
    /\ UNCHANGED <<configs, current_config, docker_hostname, aws_hostname,
                   machine_id, hostname, computer_name, network, env_filename,
                   probe_ret, server_name, examined, queried, probes, log,
                   returned>>

\* Lines 181-190: the request; any Exception leaves internal_request None.
ProbeRequest ==
    /\ pc = "l185"
    /\ internal_request' =
           IF network.raises THEN NoRequest ELSE <<network.status_code>>
    /\ pc' = "l192"
    /\ UNCHANGED <<configs, current_config, docker_hostname, aws_hostname,
                   machine_id, hostname, computer_name, network, env_filename,
                   probe_ret, server_name, examined, queried, probes, log,
                   returned>>

\* Lines 192-209: run_auto_env_selector returns.
ProbeDecide ==
    /\ pc = "l192"
    /\ probe_ret' = RunAutoDecision(internal_request, docker_hostname)
    /\ pc' = "l131"
    /\ UNCHANGED <<configs, current_config, docker_hostname, aws_hostname,
                   machine_id, hostname, computer_name, network, env_filename,
                   internal_request, server_name, examined, queried, probes,
                   log, returned>>

\* Lines 130-131: env_filename = <the selector's value>; return env_filename
ReturnFallback ==
    /\ pc = "l131"
    /\ env_filename' = probe_ret
    /\ returned' = Append(returned, probe_ret)
    /\ pc' = "done"
    /\ UNCHANGED <<configs, current_config, docker_hostname, aws_hostname,
                   machine_id, hostname, computer_name, network,
                   internal_request, probe_ret, server_name, examined,
                   queried, probes, log>>

\* determine_env is called on the object, right after construction or after
\* an earlier call returned: its locals are fresh; the attributes, the
\* registry and current_config are as they were left.
DetermineEnv ==
    /\ pc \in {"start", "done"}
    /\ Len(returned) < MaxCalls
    /\ pc' = "l98"
    /\ env_filename' = None
    /\ internal_request' = NoRequest
    /\ probe_ret' = None
    /\ queried' = <<>>
    /\ probes' = 0
    /\ log' = <<>>
    /\ UNCHANGED <<configs, current_config, docker_hostname, aws_hostname,
                   machine_id, hostname, computer_name, network, server_name,
                   examined, returned>>

Next ==
    \/ LoadDeploymentEnvironment
    \/ QueryDocker
    \/ QueryAws
    \/ ReturnDocker
    \/ QueryMachineId
    \/ ReturnAws
    \/ QueryHostname
    \/ ReturnMachineId
    \/ QueryComputerName
    \/ ReturnHostname
    \/ CallAutoEnvSelector
    \/ ReturnComputerName
    \/ ProbeRequest
    \/ ProbeDecide
    \/ ReturnFallback
    \/ DetermineEnv

Spec == Init /\ [][Next]_vars

(***************************************************************************)
(* set_current_config alone: one call on a registry, for an identity.      *)
(***************************************************************************)
InitFind ==
    /\ configs \in Registries(Records(MaxLen))
    /\ server_name \in {NoneId} \cup Strings(MaxLen)
    /\ current_config \in {None, "cluster.env"}
    /\ network = [raises |-> TRUE, status_code |-> 0]
    /\ pc = "l57"
    /\ docker_hostname = NoneId
    /\ aws_hostname = NoneId
    /\ machine_id = NoneId
    /\ hostname = NoneId
    /\ computer_name = NoneId
    /\ env_filename = None
    /\ internal_request = NoRequest
    /\ probe_ret = None
    /\ examined = 0
    /\ queried = <<>>
    /\ probes = 0
    /\ log = <<>>
    /\ returned = <<>>

\* Lines 57-62, called with server_name.
SetCurrentConfig ==
    /\ pc = "l57"
    /\ Call_set_current_config(server_name)
    /\ pc' = "l62"
    /\ UNCHANGED <<configs, docker_hostname, aws_hostname, machine_id,
                   hostname, computer_name, network, internal_request,
                   probe_ret, queried, probes, log, returned>>

NextFind == SetCurrentConfig

SpecFind == InitFind /\ [][NextFind]_vars

(***************************************************************************)
(* run_auto_env_selector alone: one call, for a docker hostname and a      *)
(* network.                                                                *)
(***************************************************************************)
InitProbe ==
    /\ configs = <<>>
    /\ network \in NetworkOutcomes
    /\ docker_hostname \in {NoneId} \cup Strings(MaxLen)
    /\ pc = "l185"
    /\ current_config = None
    /\ aws_hostname = NoneId
    /\ machine_id = NoneId
    /\ hostname = NoneId
    /\ computer_name = NoneId
    /\ env_filename = None
    /\ internal_request = NoRequest
    /\ probe_ret = None
    /\ server_name = NoneId
    /\ examined = 0
    /\ queried = <<>>
    /\ probes = 1
    /\ log = <<>>
    /\ returned = <<>>

NextProbe ==
    \/ ProbeRequest
    \/ ProbeDecide

SpecProbe == InitProbe /\ [][NextProbe]_vars

(***************************************************************************)
(* Properties.                                                             *)
(***************************************************************************)

\* p occurs in s: s is some u, then p, then some v.
Occurs(p, s) ==
    \E i \in 0..Len(s) : \E j \in i..Len(s) :
        /\ j - i = Len(p)
        /\ \A k \in 1..Len(p) : s[i + k] = p[k]

\* The records whose SERVER_NAME occurs in the identity looked up.
Matching == {i \in 1..Len(configs) : Occurs(configs[i].SERVER_NAME, server_name)}

Least(S) == CHOOSE i \in S : \A j \in S : i <= j

\* C1: for a non-empty identity, set_current_config returns the ENV of the
\* first record, in file order, whose SERVER_NAME occurs in the identity
\* (it need not equal it), and None exactly when no record's does.
C1_FirstSubstringMatch ==
    (pc = "l62" /\ TruthyId(server_name)) =>
        /\ (env_filename = None) <=> (Matching = {})
        /\ Matching # {} => env_filename = configs[Least(Matching)].ENV

\* Two records match, the first by a proper substring, and the first one's
\* ENV is returned.
C1_Witness ==
    /\ pc = "l62"
    /\ Len(configs) = 2
    /\ Matching = {1, 2}
    /\ configs[1].SERVER_NAME # <<>>
    /\ configs[1].SERVER_NAME # server_name
    /\ configs[1].ENV # configs[2].ENV
    /\ env_filename = configs[1].ENV

\* C9: for a None or empty identity, set_current_config returns None and
\* tests no record, whatever the registry holds and whatever current_config
\* was; current_config is None afterwards.
C9_EmptyIdentityNoScan ==
    (pc = "l62" /\ ~TruthyId(server_name)) =>
        /\ env_filename = None
        /\ examined = 0
        /\ current_config = None

\* The empty identity on a registry whose first record has the empty
\* pattern, which occurs in every string, with a config set before.
C9_Witness ==
    /\ pc = "l62"
    /\ server_name = <<>>
    /\ Len(configs) > 0
    /\ configs[1].SERVER_NAME = <<>>
    /\ configs[1].ENV = "aws.env"
    /\ env_filename = None

\* The test of lines 192: a response arrived and its status is 200.
Reachable == ~network.raises /\ network.status_code = 200

\* The check failed: an exception, or a status that is no 2xx.
ProbeFailed ==
    network.raises \/ network.status_code < 200 \/ network.status_code > 299

DockerSet == TruthyId(docker_hostname)

FallbackFiles == {"local_dev.env", "cgi_docker_dev.env", "local_docker_dev.env"}

C5_ProbeNeverFails ==
    /\ pc # "raised"
    /\ pc = "l131" => probe_ret \in FallbackFiles
    /\ (pc = "l131" /\ ProbeFailed) =>
           probe_ret = IF DockerSet THEN "local_docker_dev.env" ELSE "local_dev.env"

C5_Witness ==
    /\ pc = "l131"
    /\ network.raises
    /\ DockerSet
    /\ probe_ret = "local_docker_dev.env"

\* The candidates in the order determine_env passes them to
\* set_current_config, and the attribute each one names.
Priority ==
    <<"docker_hostname", "aws_hostname", "machine_id", "hostname", "computer_name">>

Value(label) ==
    CASE label = "docker_hostname" -> docker_hostname
      [] label = "aws_hostname" -> aws_hostname
      [] label = "machine_id" -> machine_id
      [] label = "hostname" -> hostname
      [] label = "computer_name" -> computer_name

\* What a lookup of the candidate in the registry gives.
Lookup(label) == set_current_config(configs, None, Value(label)).ret

\* The places in Priority whose lookup is a non-empty file name, and those
\* whose lookup is not None.
Matched == {i \in 1..Len(Priority) : Truthy(Lookup(Priority[i]))}
NotNone == {i \in 1..Len(Priority) : Lookup(Priority[i]) # None}

LastReturned == returned[Len(returned)]

C6_AlwaysAFilename ==
    /\ \A i \in 1..Len(returned) :
           /\ Truthy(returned[i])
           /\ \/ returned[i] \in FallbackFiles
              \/ \E k \in 1..Len(configs) : configs[k].ENV = returned[i]
    /\ pc = "done" => Len(returned) > 0
    /\ pc \notin {"start", "done"} => ENABLED Next

\* A run that ends in the fallback although the registry holds records and
\* docker_hostname is set.
C6_Witness ==
    /\ pc = "done"
    /\ Len(configs) > 0
    /\ DockerSet
    /\ probes = 1
    /\ LastReturned = "local_docker_dev.env"

C8_Idempotent ==
    \A i, j \in 1..Len(returned) : returned[i] = returned[j]

\* The second call ran with the first call's current_config set, looked up
\* four candidates and returned the hostname's file again.
C8_Witness ==
    /\ pc = "done"
    /\ Len(returned) = 2
    /\ Truthy(current_config)
    /\ queried = SubSeq(Priority, 1, 4)
    /\ returned[2] = Lookup("hostname")

\* The warning that names each candidate.
Diagnostic(label) ==
    CASE label = "docker_hostname" -> "$DOCKER_HOSTNAME"
      [] label = "aws_hostname" -> "$AWS_HOSTNAME"
      [] label = "machine_id" -> "socket.gethostname()"
      [] label = "hostname" -> "$HOSTNAME env var"
      [] label = "computer_name" -> "%COMPUTERNAME% env var"

\* C10: a run of determine_env that ends with a registry match logs one
\* warning, which names the candidate whose lookup matched; a run that ends
\* in run_auto_env_selector logs none.
C10_DiagnosticNamesCandidate ==
    pc = "done" =>
        log = IF probes = 0 THEN <<Diagnostic(queried[Len(queried)])>> ELSE <<>>

====
